---- MODULE Spec2Model ----
(***************************************************************************)
(* A model of mlserver/grpc/server.py: the GRPCServer lifecycle manager    *)
(* and the grpc.aio server objects it creates, starts and stops.           *)
(*                                                                         *)
(* start() and stop() are coroutines run by one asyncio event loop: each   *)
(* action below is one run of a coroutine from one suspension point        *)
(* (await) to the next, so it is atomic with respect to the other tasks.   *)
(* The grpc.aio server behind self._server is modelled by its documented   *)
(* behaviour at the calls the source makes on it (aio.server, the          *)
(* add_*_to_server functions, add_insecure_port, start, stop(grace),       *)
(* wait_for_termination).                                                  *)
(*                                                                         *)
(* Time is counted in the units of the grace period.  Completions that     *)
(* need no waiting (a shutdown with nothing in flight, a coroutine whose   *)
(* awaited future is done) happen before time advances.                    *)
(***************************************************************************)
EXTENDS Integers, Sequences, FiniteSets, TLC

\* ------------------------------------------------------------------ bounds
\* How many times start() and stop(), taken together, are called on the
\* manager.
MaxOps == 3
\* How many RPC calls clients make.
MaxCalls == 2
\* The configured message lengths tried for the transport options run from
\* -MaxMessageLength to MaxMessageLength.
MaxMessageLength == 3

\* --------------------------------------------------------------- constants
DefaultGrpcWorkers == 5

\* The grace period stop() passes to the server.
grace == 5

StartIds == 1..MaxOps
StopIds == 1..MaxOps
CallIds == 1..MaxCalls

\* An attribute of the manager that has not been assigned yet.
Unset == 0

\* Optional[int]: None is the empty sequence, the integer n is <<n>>.
None == <<>>
Some(n) == <<n>>

MessageLengths == {None, Some(4194304)}

\* The Settings objects a manager is constructed with.
SettingsValues ==
    [host : {"0.0.0.0"}, grpc_port : {8081},
     grpc_max_message_length : MessageLengths]

VARIABLES
    self,        \* the GRPCServer object's attributes
    servers,     \* the aio servers, servers[i] created by the i-th start()
    startTasks,  \* the start() coroutines
    stopTasks,   \* the stop() coroutines
    calls,       \* the RPC calls of the clients
    log          \* the lines given to logger.info

vars == <<self, servers, startTasks, stopTasks, calls, log>>

\* ------------------------------------------------------------ the manager

\* __init__, were it to create the server and the adapters eagerly.
__init___creates_server(settings, data_plane, model_repository_handlers) ==
    [_settings |-> settings,
     _data_plane |-> data_plane,
     _model_repository_handlers |-> model_repository_handlers,
     _inference_servicer |-> 1,
     _model_repository_servicer |-> 1,
     _server |-> 1]

\* GRPCServer.__init__: captures its three arguments and nothing else.
\* The attributes _create_server assigns later do not exist yet.
__init__(settings, data_plane, model_repository_handlers) ==
    [_settings |-> settings,
     _data_plane |-> data_plane,
     _model_repository_handlers |-> model_repository_handlers,
     _inference_servicer |-> Unset,
     _model_repository_servicer |-> Unset,
     _server |-> Unset]

\* _get_options, were the length tested for truth (`if max_message_length:`)
\* instead of compared with None: a length of 0 counts as absent.
_get_options_truthy(me) ==
    LET max_message_length == me._settings.grpc_max_message_length
    IN  IF max_message_length # None /\ max_message_length[1] # 0
        THEN << <<"grpc.max_message_length", max_message_length[1]>>,
                <<"grpc.max_send_message_length", max_message_length[1]>>,
                <<"grpc.max_receive_message_length", max_message_length[1]>> >>
        ELSE <<>>

\* _get_options, were it to validate the length and drop a negative one.
_get_options_validating(me) ==
    LET max_message_length == me._settings.grpc_max_message_length
    IN  IF max_message_length # None /\ max_message_length[1] >= 0
        THEN << <<"grpc.max_message_length", max_message_length[1]>>,
                <<"grpc.max_send_message_length", max_message_length[1]>>,
                <<"grpc.max_receive_message_length", max_message_length[1]>> >>
        ELSE <<>>

\* GRPCServer._get_options
_get_options(me) ==
    LET max_message_length == me._settings.grpc_max_message_length
    IN  IF max_message_length # None
        THEN << <<"grpc.max_message_length", max_message_length[1]>>,
                <<"grpc.max_send_message_length", max_message_length[1]>>,
                <<"grpc.max_receive_message_length", max_message_length[1]>> >>
        ELSE <<>>

\* -------------------------------------------------------- the aio server

\* No server: the i-th start() has not created its server yet.
NoServer ==
    [status |-> "absent", max_workers |-> 0, interceptors |-> <<>>,
     options |-> <<>>, handlers |-> <<>>, ports |-> <<>>, events |-> <<>>]

\* aio.server(ThreadPoolExecutor(max_workers), interceptors, options)
aio_server(max_workers, interceptors, options) ==
    [status |-> "READY", max_workers |-> max_workers,
     interceptors |-> interceptors, options |-> options,
     handlers |-> <<>>, ports |-> <<>>, events |-> <<"server">>]

\* add_GRPCInferenceServiceServicer_to_server(servicer, server)
add_GRPCInferenceServiceServicer_to_server(servicer, server) ==
    [server EXCEPT
        !.handlers = Append(@, [service |-> "inference", servicer |-> servicer]),
        !.events = Append(@, "add_inference")]

\* add_ModelRepositoryServiceServicer_to_server(servicer, server)
add_ModelRepositoryServiceServicer_to_server(servicer, server) ==
    [server EXCEPT
        !.handlers = Append(@, [service |-> "model_repository", servicer |-> servicer]),
        !.events = Append(@, "add_model_repository")]

\* server.add_insecure_port(address): binds the address when the transport
\* can (bound), and raises leaving the server as it was when it cannot.
add_insecure_port(server, address, bound) ==
    [server EXCEPT
        !.ports = IF bound THEN Append(@, address) ELSE @,
        !.events = Append(@, "add_insecure_port")]

\* server.start(), up to its suspension: the server is starting.
server_start(server) ==
    [server EXCEPT !.status = "STARTING", !.events = Append(@, "start")]

\* server.start() completed: the server accepts connections, unless a
\* stop() has put it in shutdown meanwhile.
server_started(server) ==
    [server EXCEPT !.status = IF @ = "STARTING" THEN "RUNNING" ELSE @]

\* Accepting, were a server in shutdown to go on taking calls.
Accepting_in_shutdown(server) == server.status \in {"RUNNING", "STOPPING"}

\* A server takes new calls only while it is running.
Accepting(server) == server.status = "RUNNING"

\* The calls in flight on server s.
InFlight(s) == {c \in CallIds : calls[c].status = "active" /\ calls[c].server = s}

\* The end of the grace period: every call in flight on s is aborted.
cancel_all_calls(s) ==
    [c \in CallIds |->
        IF c \in InFlight(s) THEN [calls[c] EXCEPT !.status = "aborted"]
        ELSE calls[c]]

\* _create_server, were the address bound before the model-repository
\* adapter is registered.
_create_server_binds_early(me, id, bound) ==
    LET me1 == [me EXCEPT !._inference_servicer = id,
                          !._model_repository_servicer = id]
        s0 == aio_server(DefaultGrpcWorkers, <<"LoggingInterceptor">>,
                         _get_options(me1))
        me2 == [me1 EXCEPT !._server = id]
        s1 == add_GRPCInferenceServiceServicer_to_server(
                  me2._inference_servicer, s0)
        s2 == add_insecure_port(
                  s1, <<me2._settings.host, me2._settings.grpc_port>>, bound)
        s3 == IF bound
              THEN add_ModelRepositoryServiceServicer_to_server(
                       me2._model_repository_servicer, s2)
              ELSE s2
    IN  [self |-> me2, server |-> s3, raised |-> ~bound]

\* GRPCServer._create_server, run by the call start() number id. Its result
\* is the manager, the server, and whether add_insecure_port raised.
_create_server(me, id, bound) ==
    LET me1 == [me EXCEPT !._inference_servicer = id,
                          !._model_repository_servicer = id]
        s0 == aio_server(DefaultGrpcWorkers, <<"LoggingInterceptor">>,
                         _get_options(me1))
        me2 == [me1 EXCEPT !._server = id]
        s1 == add_GRPCInferenceServiceServicer_to_server(
                  me2._inference_servicer, s0)
        s2 == add_ModelRepositoryServiceServicer_to_server(
                  me2._model_repository_servicer, s1)
        s3 == add_insecure_port(
                  s2, <<me2._settings.host, me2._settings.grpc_port>>, bound)
    IN  [self |-> me2, server |-> s3, raised |-> ~bound]

\* ------------------------------------------------------------------ state

Init ==
    /\ self \in {__init__(s, "data_plane", "model_repository_handlers") :
                    s \in SettingsValues}
    /\ servers = [i \in StartIds |-> NoServer]
    /\ startTasks = [i \in StartIds |->
                       [pc |-> "idle", server |-> Unset, found |-> "idle"]]
    /\ stopTasks = [t \in StopIds |->
                      [pc |-> "idle", server |-> Unset, elapsed |-> 0,
                       found |-> "idle", blocked |-> {}]]
    /\ calls = [c \in CallIds |-> [status |-> "new", server |-> Unset]]
    /\ log = <<>>

\* The lifecycle state of the manager: that of the server it refers to.
Lifecycle ==
    IF self._server = Unset THEN "Unstarted" ELSE servers[self._server].status

\* How many calls of start() and of stop() have been made so far.
Invoked ==
    Cardinality({i \in StartIds : startTasks[i].pc # "idle"})
        + Cardinality({t \in StopIds : stopTasks[t].pc # "idle"})

\* ---------------------------------------------------------------- start()

\* start() is called (the calls are numbered in the order they are made):
\* _create_server, then self._server.start() up to its suspension. The task
\* remembers in `found` the lifecycle state the call found the manager in.
start(i) ==
    /\ startTasks[i].pc = "idle"
    /\ i > 1 => startTasks[i - 1].pc # "idle"
    /\ Invoked < MaxOps
    /\ \E bound \in BOOLEAN :
        LET made == _create_server(self, i, bound)
        IN  /\ self' = made.self
            /\ IF made.raised
               THEN /\ servers' = [servers EXCEPT ![i] = made.server]
                    /\ startTasks' = [startTasks EXCEPT
                                          ![i] = [@ EXCEPT !.pc = "raised",
                                                           !.found = Lifecycle]]
               ELSE /\ servers' = [servers EXCEPT
                                      ![i] = server_start(made.server)]
                    /\ startTasks' = [startTasks EXCEPT
                                          ![i] = [@ EXCEPT !.pc = "await_start",
                                                           !.found = Lifecycle]]
    /\ UNCHANGED <<stopTasks, calls, log>>

\* start_running, were the logger.info call missing.
start_running_silent(i) ==
    /\ startTasks[i].pc = "await_start"
    /\ servers' = [servers EXCEPT ![i] = server_started(@)]
    /\ startTasks' = [startTasks EXCEPT
                         ![i] = [@ EXCEPT !.pc = "await_termination",
                                          !.server = self._server]]
    /\ UNCHANGED <<self, stopTasks, calls, log>>

\* start() resumes after `await self._server.start()`: logs the line and
\* awaits the termination of the server self._server names now.
start_running(i) ==
    /\ startTasks[i].pc = "await_start"
    /\ servers' = [servers EXCEPT ![i] = server_started(@)]
    /\ log' = Append(log, [level |-> "info",
                           message |-> <<"gRPC server running on ", "http://",
                                         self._settings.host,
                                         self._settings.grpc_port>>])
    /\ startTasks' = [startTasks EXCEPT
                         ![i] = [@ EXCEPT !.pc = "await_termination",
                                          !.server = self._server]]
    /\ UNCHANGED <<self, stopTasks, calls>>

\* wait_for_termination() is over: start() returns.
start_return(i) ==
    /\ startTasks[i].pc = "await_termination"
    /\ servers[startTasks[i].server].status = "STOPPED"
    /\ startTasks' = [startTasks EXCEPT ![i].pc = "returned"]
    /\ UNCHANGED <<self, servers, stopTasks, calls, log>>

\* ----------------------------------------------------------------- stop()

\* ReturnsAtOnce, were stopping a server already stopped not a no-op.
ReturnsAtOnce_unless_stopped(server) == server.status = "READY"

\* server.stop(grace) returns at once, doing nothing, on a server that never
\* started or has already stopped.
ReturnsAtOnce(server) == server.status \in {"READY", "STOPPED"}

\* The start() calls suspended in wait_for_termination.
Blocked == {i \in StartIds : startTasks[i].pc = "await_termination"}

\* stop() is called: self._server.stop(grace). Without the attribute it
\* raises; a server that never started or has stopped returns at once; any
\* other server stops taking calls and stop() waits. The task remembers in
\* `found` the lifecycle state the call found the manager in and in
\* `blocked` the start() calls it found blocked.
stop(t) ==
    /\ stopTasks[t].pc = "idle"
    /\ t > 1 => stopTasks[t - 1].pc # "idle"
    /\ Invoked < MaxOps
    /\ IF self._server = Unset
       THEN /\ stopTasks' = [stopTasks EXCEPT
                                ![t] = [@ EXCEPT !.pc = "raised",
                                                 !.found = Lifecycle,
                                                 !.blocked = Blocked]]
            /\ UNCHANGED servers
       ELSE LET s == self._server
            IN  IF ReturnsAtOnce(servers[s])
                THEN /\ stopTasks' = [stopTasks EXCEPT
                                         ![t] = [@ EXCEPT !.pc = "returned",
                                                          !.server = s,
                                                          !.found = Lifecycle,
                                                          !.blocked = Blocked]]
                     /\ UNCHANGED servers
                ELSE /\ stopTasks' = [stopTasks EXCEPT
                                         ![t] = [@ EXCEPT !.pc = "waiting",
                                                          !.server = s,
                                                          !.found = Lifecycle,
                                                          !.blocked = Blocked]]
                     /\ servers' = [servers EXCEPT ![s].status = "STOPPING"]
    /\ UNCHANGED <<self, startTasks, calls, log>>

\* GraceOver, were the deadline one time-unit late.
GraceOver_late(t) == stopTasks[t].elapsed >= grace + 1

\* The grace period of a waiting stop() is over.
GraceOver(t) == stopTasks[t].elapsed >= grace

\* The grace period of stop() number t ends with calls still in flight:
\* they are aborted.
grace_expired(t) ==
    /\ stopTasks[t].pc = "waiting"
    /\ GraceOver(t)
    /\ servers[stopTasks[t].server].status = "STOPPING"
    /\ InFlight(stopTasks[t].server) # {}
    /\ calls' = cancel_all_calls(stopTasks[t].server)
    /\ UNCHANGED <<self, servers, startTasks, stopTasks, log>>

\* A server in shutdown with no call left in flight has terminated.
shutdown_completed(s) ==
    /\ servers[s].status = "STOPPING"
    /\ InFlight(s) = {}
    /\ servers' = [servers EXCEPT ![s].status = "STOPPED"]
    /\ UNCHANGED <<self, startTasks, stopTasks, calls, log>>

\* stop_return, were stop() to drop the manager's reference to the server
\* once it has stopped.
stop_return_forgets_server(t) ==
    /\ stopTasks[t].pc = "waiting"
    /\ servers[stopTasks[t].server].status = "STOPPED"
    /\ stopTasks' = [stopTasks EXCEPT ![t].pc = "returned"]
    /\ self' = [self EXCEPT !._server = Unset]
    /\ UNCHANGED <<servers, startTasks, calls, log>>

\* The server has terminated: stop() returns.
stop_return(t) ==
    /\ stopTasks[t].pc = "waiting"
    /\ servers[stopTasks[t].server].status = "STOPPED"
    /\ stopTasks' = [stopTasks EXCEPT ![t].pc = "returned"]
    /\ UNCHANGED <<self, servers, startTasks, calls, log>>

\* ------------------------------------------------------------ environment

\* A client's call arrives at server s (the calls are numbered in order).
call_arrives(c, s) ==
    /\ calls[c].status = "new"
    /\ c > 1 => calls[c - 1].status # "new"
    /\ Accepting(servers[s])
    /\ calls' = [calls EXCEPT ![c] = [status |-> "active", server |-> s]]
    /\ UNCHANGED <<self, servers, startTasks, stopTasks, log>>

\* A call in flight finishes on its own.
call_finishes(c) ==
    /\ calls[c].status = "active"
    /\ calls' = [calls EXCEPT ![c].status = "finished"]
    /\ UNCHANGED <<self, servers, startTasks, stopTasks, log>>

\* MustWait, were stop() to sit out its grace period whether or not a call
\* is in flight.
MustWait_whatever_in_flight ==
    /\ \E t \in StopIds : stopTasks[t].pc = "waiting"
    /\ \A t \in StopIds : stopTasks[t].pc = "waiting" => ~GraceOver(t)

\* Nothing can happen without time passing: every waiting stop() is inside
\* its grace period, waiting for calls in flight.
MustWait ==
    /\ \E t \in StopIds : stopTasks[t].pc = "waiting"
    /\ \A t \in StopIds :
        stopTasks[t].pc = "waiting" =>
            /\ ~GraceOver(t)
            /\ servers[stopTasks[t].server].status = "STOPPING"
            /\ InFlight(stopTasks[t].server) # {}

\* One time-unit passes for every waiting stop().
tick ==
    /\ MustWait
    /\ stopTasks' = [t \in StopIds |->
                        IF stopTasks[t].pc = "waiting"
                        THEN [stopTasks[t] EXCEPT !.elapsed = @ + 1]
                        ELSE stopTasks[t]]
    /\ UNCHANGED <<self, servers, startTasks, calls, log>>

\* ---------------------------------------------------------- specification

Next ==
    \/ \E i \in StartIds : start(i)
    \/ \E i \in StartIds : start_running(i)
    \/ \E i \in StartIds : start_return(i)
    \/ \E t \in StopIds : stop(t)
    \/ \E t \in StopIds : grace_expired(t)
    \/ \E s \in StartIds : shutdown_completed(s)
    \/ \E t \in StopIds : stop_return(t)
    \/ \E c \in CallIds, s \in StartIds : call_arrives(c, s)
    \/ \E c \in CallIds : call_finishes(c)
    \/ tick

Spec == Init /\ [][Next]_vars

\* The steps the event loop takes by itself: resuming a coroutine whose
\* awaited future is done, completing a shutdown, firing a timer that is due.
Loop ==
    \/ \E i \in StartIds : start_running(i) \/ start_return(i)
    \/ \E t \in StopIds : grace_expired(t) \/ stop_return(t)
    \/ \E s \in StartIds : shutdown_completed(s)
    \/ tick

\* The event loop does not stop while it has such a step to take; nothing
\* is assumed of the callers of start() and stop() or of the clients, whose
\* calls need not ever finish.
Fairness == WF_vars(Loop)

FairSpec == Spec /\ Fairness

\* The transport options alone: managers constructed with every message
\* length tried, absent, negative, zero and positive, on which start() is
\* called; every server start() creates carries what _get_options returned.
OptionLengths ==
    {None, Some(4194304)}
        \cup {Some(n) : n \in (-MaxMessageLength)..MaxMessageLength}

OptionsInit ==
    /\ self \in {__init__([host |-> "0.0.0.0", grpc_port |-> 8081,
                           grpc_max_message_length |-> m],
                          "data_plane", "model_repository_handlers") :
                    m \in OptionLengths}
    /\ servers = [i \in StartIds |-> NoServer]
    /\ startTasks = [i \in StartIds |->
                       [pc |-> "idle", server |-> Unset, found |-> "idle"]]
    /\ stopTasks = [t \in StopIds |->
                      [pc |-> "idle", server |-> Unset, elapsed |-> 0,
                       found |-> "idle", blocked |-> {}]]
    /\ calls = [c \in CallIds |-> [status |-> "new", server |-> Unset]]
    /\ log = <<>>

OptionsNext == \E i \in StartIds : start(i)

OptionsSpec == OptionsInit /\ [][OptionsNext]_vars

\* ----------------------------------------------------------------- claims

\* C1: whenever a call to start() has returned normally, the server that
\* call created is fully terminated (Stopped).
C1_StartReturnsAfterItsServerStopped ==
    \A i \in StartIds :
        startTasks[i].pc = "returned" => servers[i].status = "STOPPED"

\* The services registered on a server.
Services(server) == {server.handlers[k].service : k \in DOMAIN server.handlers}

\* The places of event e in the record of the calls made on a server.
Places(server, e) == {k \in DOMAIN server.events : server.events[k] = e}

\* C2: a stop() never waits beyond the grace period of 5 time-units; once
\* it has returned no call is in flight on the server it stopped, which has
\* terminated; and every stop() that waits returns (whenever some stop() is
\* waiting, a time comes when none is, and a waiting stop() only leaves
\* that state by returning).
C2_StopReturnsByTheGraceDeadline ==
    /\ [](\A t \in StopIds :
            /\ stopTasks[t].pc \in {"waiting", "returned"} =>
                   stopTasks[t].elapsed <= 5
            /\ stopTasks[t].pc = "returned" =>
                   /\ InFlight(stopTasks[t].server) = {}
                   /\ servers[stopTasks[t].server].status \in {"READY", "STOPPED"})
    /\ (\E t \in StopIds : stopTasks[t].pc = "waiting")
           ~> (\A t \in StopIds : stopTasks[t].pc # "waiting")

\* C2 happens: a stop() found the server running, waited the whole grace
\* period and returned after a call that never finished was aborted.
C2_Witness ==
    \E t \in StopIds, c \in CallIds :
        /\ stopTasks[t].pc = "returned"
        /\ stopTasks[t].found = "RUNNING"
        /\ stopTasks[t].elapsed = 5
        /\ calls[c].status = "aborted"
        /\ calls[c].server = stopTasks[t].server

\* C3: a server in shutdown takes no new call, and a call in flight is
\* aborted only when the grace period of a stop() waiting for its server
\* has elapsed.
C3_NoNewCallNoEarlyAbort ==
    [][/\ \A s \in StartIds :
            servers[s].status = "STOPPING" => InFlight(s)' \subseteq InFlight(s)
       /\ \A c \in CallIds :
            (calls[c].status = "active" /\ calls'[c].status = "aborted") =>
                /\ servers[calls[c].server].status = "STOPPING"
                /\ \E t \in StopIds :
                    /\ stopTasks[t].pc = "waiting"
                    /\ stopTasks[t].server = calls[c].server
                    /\ stopTasks[t].elapsed >= 5]_vars

\* C3 happens: in one shutdown a call finished on its own inside the grace
\* period and another was aborted at the deadline.
C3_Witness ==
    \E t \in StopIds, c, d \in CallIds :
        /\ stopTasks[t].pc = "waiting"
        /\ stopTasks[t].elapsed = 5
        /\ calls[c].status = "aborted"
        /\ calls[c].server = stopTasks[t].server
        /\ calls[d].status = "finished"
        /\ calls[d].server = stopTasks[t].server
\* C4: if stop() is invoked while the server is Running and a start() is
\* blocked, that start() is released by the shutdown stop() triggers: once
\* the stop() has returned, the termination the start() awaits has happened
\* (and start() returns at its next turn).
C4_StopReleasesBlockedStart ==
    \A t \in StopIds, i \in StartIds :
        (/\ stopTasks[t].pc = "returned"
         /\ stopTasks[t].found = "RUNNING"
         /\ i \in stopTasks[t].blocked) =>
            servers[startTasks[i].server].status = "STOPPED"

\* C5: a start() called on a manager that an earlier start() has already
\* taken to Starting, Running, Stopping or Stopped raises an error, creates
\* no server and binds nothing.
C5_SecondStartIsRejected ==
    \A i \in StartIds :
        startTasks[i].found \in {"STARTING", "RUNNING", "STOPPING", "STOPPED"} =>
            /\ startTasks[i].pc = "raised"
            /\ servers[i].status = "absent"
            /\ servers[i].ports = <<>>

\* C6: a stop() called before start() has reached Running raises an error,
\* both on a manager never started and on one whose server is still
\* Starting.
C6_StopBeforeRunningIsRejected ==
    \A t \in StopIds :
        stopTasks[t].found \in {"Unstarted", "STARTING"} =>
            stopTasks[t].pc = "raised"

\* C7: at most one server instance is ever created by one manager.
C7_AtMostOneServerInstance ==
    Cardinality({i \in StartIds : servers[i].status # "absent"}) <= 1

\* C8: once the manager is Stopped, nothing makes it Running again: a
\* start() called on a Stopped manager never results in a running server
\* the manager refers to.
C8_StoppedNeverRunsAgain ==
    \A i \in StartIds :
        startTasks[i].found = "STOPPED" =>
            ~(self._server = i /\ Lifecycle = "RUNNING")

\* C9: on every server, both adapters are registered before the address is
\* bound and the address is bound before the server is started; no server
\* is bound, starting, or accepting with fewer than two adapters.
C9_AdaptersThenBindThenAccept ==
    \A i \in StartIds :
        LET server == servers[i]
            both == {"inference", "model_repository"}
        IN  /\ (server.ports # <<>> \/ server.status \notin {"absent", "READY"}) =>
                   /\ Services(server) = both
                   /\ Len(server.handlers) = 2
            /\ server.status \notin {"absent", "READY"} => server.ports # <<>>
            /\ \A b \in Places(server, "add_insecure_port") :
                   /\ \E a \in Places(server, "add_inference") : a < b
                   /\ \E a \in Places(server, "add_model_repository") : a < b
            /\ \A s \in Places(server, "start") :
                   \E b \in Places(server, "add_insecure_port") : b < s

\* C9 happens: a server, bound with both adapters registered, is taking a
\* call.
C9_Witness ==
    \E i \in StartIds, c \in CallIds :
        /\ Accepting(servers[i])
        /\ servers[i].ports # <<>>
        /\ Services(servers[i]) = {"inference", "model_repository"}
        /\ calls[c].status = "active"
        /\ calls[c].server = i

\* C10: after a start() whose bind failed, the manager is as if never
\* started: it holds neither the server nor the adapters that call created,
\* that server never accepts connections, and a stop() that finds the
\* manager so raises as it does on a manager never started.
C10_FailedBindLeavesUnstarted ==
    /\ \A i \in StartIds :
           startTasks[i].pc = "raised" =>
               /\ self._server # i
               /\ self._inference_servicer # i
               /\ self._model_repository_servicer # i
               /\ ~Accepting(servers[i])
    /\ \A t \in StopIds :
           stopTasks[t].found = "READY" => stopTasks[t].pc = "raised"

\* The message length the manager was configured with.
Configured == self._settings.grpc_max_message_length

\* C11: the transport options of every server are the empty list when the
\* maximum message length is absent and, when it is N >= 0 (0 included), the
\* three entries grpc.max_message_length, grpc.max_send_message_length and
\* grpc.max_receive_message_length, in that order, each with value N.
C11_OptionsAreTheThreeSizeEntries ==
    \A i \in StartIds :
        servers[i].status # "absent" =>
            /\ Configured = None => servers[i].options = <<>>
            /\ (Configured # None /\ Configured[1] >= 0) =>
                   servers[i].options =
                       << <<"grpc.max_message_length", Configured[1]>>,
                          <<"grpc.max_send_message_length", Configured[1]>>,
                          <<"grpc.max_receive_message_length", Configured[1]>> >>

\* C11 happens: a server was created under a message length of 0 and has
\* three options.
C11_Witness ==
    \E i \in StartIds :
        /\ Configured = Some(0)
        /\ servers[i].status # "absent"
        /\ Len(servers[i].options) = 3

\* C12: a stop() invoked on a Running server with no call in flight returns
\* with zero time-units elapsed. A stop() that found the manager Running and
\* whose server never had a call has none elapsed; and, step by step, while
\* no call is in flight on the server of a waiting stop(), no time-unit
\* passes for it and no call appears there, from its invocation (at zero) to
\* its return.
C12_StopWithNothingInFlightTakesNoTime ==
    /\ [](\A t \in StopIds :
            (/\ stopTasks[t].found = "RUNNING"
             /\ \A c \in CallIds : calls[c].server # stopTasks[t].server) =>
                stopTasks[t].elapsed = 0)
    /\ [][\A t \in StopIds :
            /\ (stopTasks[t].pc = "idle" /\ stopTasks'[t].pc # "idle") =>
                   stopTasks'[t].elapsed = 0
            /\ (stopTasks[t].pc = "waiting"
                    /\ InFlight(stopTasks[t].server) = {}) =>
                   /\ stopTasks'[t].elapsed = stopTasks[t].elapsed
                   /\ InFlight(stopTasks[t].server)' = {}]_vars

\* C12 happens: a stop() found the manager Running with no call on its
\* server and has returned, no time-unit elapsed.
C12_Witness ==
    \E t \in StopIds :
        /\ stopTasks[t].pc = "returned"
        /\ stopTasks[t].found = "RUNNING"
        /\ \A c \in CallIds : calls[c].server # stopTasks[t].server
        /\ stopTasks[t].elapsed = 0
        /\ servers[stopTasks[t].server].status = "STOPPED"

\* The start() calls that got past `await self._server.start()`.
Started == {i \in StartIds : startTasks[i].pc \in {"await_termination", "returned"}}

C14_ConstructionDoesNothing ==
    (\A i \in StartIds : startTasks[i].pc = "idle") =>
        /\ self._server = Unset
        /\ self._inference_servicer = Unset
        /\ self._model_repository_servicer = Unset
        /\ self._settings \in SettingsValues
        /\ self._data_plane = "data_plane"
        /\ self._model_repository_handlers = "model_repository_handlers"
        /\ \A i \in StartIds :
               /\ servers[i].status = "absent"
               /\ servers[i].handlers = <<>>
               /\ servers[i].ports = <<>>
        /\ log = <<>>

\* C14 happens: the manager is constructed, no start() has been called, and
\* a stop() has found nothing to stop.
C14_Witness ==
    /\ \A i \in StartIds : startTasks[i].pc = "idle"
    /\ \E t \in StopIds : stopTasks[t].pc = "raised"
    /\ self._server = Unset
    /\ self._settings.grpc_port = 8081

\* C15: for every integer message length, negative ones included,
\* _get_options returns three entries that carry the value unchanged.
C15_OptionsPassEveryIntegerThrough ==
    \A i \in StartIds :
        (servers[i].status # "absent" /\ Configured # None) =>
            /\ Len(servers[i].options) = 3
            /\ \A k \in 1..3 :
                   /\ Len(servers[i].options[k]) = 2
                   /\ servers[i].options[k][2] = Configured[1]

\* C15 happens: a server was created under a negative message length and
\* its options carry it.
C15_Witness ==
    \E i \in StartIds :
        /\ Configured # None
        /\ Configured[1] < 0
        /\ servers[i].status # "absent"
        /\ Len(servers[i].options) = 3
        /\ servers[i].options[1][2] = Configured[1]
\* A step of a stop(): the call itself, time passing for it, its return, or
\* the shutdown it drives (a server entering shutdown or terminating, a call
\* aborted).
StopStep ==
    \/ stopTasks' # stopTasks
    \/ \E s \in StartIds :
        /\ servers'[s].status # servers[s].status
        /\ servers'[s].status \in {"STOPPING", "STOPPED"}
    \/ \E c \in CallIds :
        calls[c].status # "aborted" /\ calls'[c].status = "aborted"

\* C16: no step of a stop(), successful or failed, changes the manager: its
\* configuration, its two handler references, its reference to the server
\* and its two adapters stay as they were, and of the servers only the
\* lifecycle status changes.
C16_StopLeavesTheManagerAlone ==
    [][StopStep =>
        /\ self' = self
        /\ \A s \in StartIds :
               servers'[s] = [servers[s] EXCEPT !.status = servers'[s].status]]_vars

\* C16 happens: a stop() has shut the server down and returned, another has
\* raised, and the manager still refers to the server and its adapters.
C16_Witness ==
    \E t, u \in StopIds :
        /\ stopTasks[t].pc = "returned"
        /\ stopTasks[t].found = "RUNNING"
        /\ stopTasks[u].pc = "raised"
        /\ self._server = stopTasks[t].server
        /\ self._inference_servicer = stopTasks[t].server
        /\ self._model_repository_servicer = stopTasks[t].server
        /\ servers[self._server].status = "STOPPED"
\* C17: when a stop() returns, no server the manager ever created is
\* Running.
C17_StopStopsEveryServer ==
    [][\A t \in StopIds :
        (stopTasks[t].pc # "returned" /\ stopTasks'[t].pc = "returned") =>
            \A i \in StartIds : servers'[i].status # "RUNNING"]_vars

\* C18: a stop() called on a manager that is Stopped returns in that very
\* step without error, with no time-unit elapsed, aborts no call and changes
\* no server: the manager stays Stopped.
C18_SecondStopIsANoOp ==
    [][\A t \in StopIds :
        (/\ stopTasks[t].pc = "idle"
         /\ stopTasks'[t].pc # "idle"
         /\ Lifecycle = "STOPPED") =>
            /\ stopTasks'[t].pc = "returned"
            /\ stopTasks'[t].elapsed = 0
            /\ calls' = calls
            /\ servers' = servers
            /\ self' = self
            /\ Lifecycle' = "STOPPED"]_vars

\* C18 happens: a first stop() shut the server down and returned, and a
\* second stop() found the manager Stopped and returned.
C18_Witness ==
    \E t, u \in StopIds :
        /\ t < u
        /\ stopTasks[t].pc = "returned"
        /\ stopTasks[t].found \in {"STARTING", "RUNNING"}
        /\ stopTasks[u].pc = "returned"
        /\ stopTasks[u].found = "STOPPED"
        /\ stopTasks[u].elapsed = 0
        /\ Lifecycle = "STOPPED"

====
